---- MODULE Spec2Model ----
(***************************************************************************)
(* A model of multiprocess_profiler/profiler.py: the Profiler ("Timer")    *)
(* lifecycle (__enter__, pause, resume, __exit__, __del__, __call__) and   *)
(* the lock-protected append to the csv record file done by __exit__.      *)
(*                                                                         *)
(* Time is counted in clock ticks; every read of time.time() made by one   *)
(* call of a method returns the tick the call happens in.                  *)
(***************************************************************************)
EXTENDS Integers, Sequences, FiniteSets, TLC

\* ------------------------------------------------------------------ bounds
NumProcs == 2      \* processes that use the profiler
MaxClock == 4      \* largest clock value a process reaches
MaxCycles == 1     \* measurement cycles (begins) a process may start

Procs == 1..NumProcs
Slots == {"main", "inv"}     \* the Profiler a process built / the one wrapper() builds

None   == "None"
Errors == {"E1"}             \* errors a measured region or a callable may raise
Funcs  == {"f", "g"}         \* qualified names of callables that can be wrapped

\* ------------------------------------------------------------ ProfileError
\* The messages of the ProfileError raised by the class.
AlreadyStartedMsg == "Profiler is already started"
NotStartedMsg     == "Profiler was not started"
PauseNotStartedMsg  == "Can't pause profiler if it is not running"
ResumeNotStartedMsg == "Can't resume if profiler if it was not started"
LogFailureMsg     == "Exception raised while calling the log function"
SinkTimeoutMsg    == "Timed out waiting for csv lock"
LogFailureTimeoutMsg == "Exception raised while calling the log function after a lock timeout"

ProfileError(msg) == [cls |-> "ProfileError", msg |-> msg]
\* An error that is not a ProfileError: a region error, a log function's own
\* error, a psutil error, an OSError.
Raised(cls, what) == [cls |-> cls, msg |-> what]
NoError == [cls |-> None, msg |-> None]

\* ------------------------------------------------------------------- paths
\* A path string is a sequence of tokens: names, the separator "/", the
\* current-directory component "." and suffixes.
Sep == "/"
Suffixes == {".csv", ".txt"}
PathSpellings == { <<"profile">>, <<".", "/", "profile">>, <<"profile", ".csv">> }
DefaultResultPath == <<"profile">>
\* A result_path that names another record file than the default one.
OtherResultPath == <<"results">>

\* str(Path(s)): pathlib drops the "." components of a path.
RECURSIVE DropDots(_, _)
DropDots(s, atStart) ==
    IF s = <<>> THEN <<>>
    ELSE IF atStart /\ Head(s) = "." /\ (Len(s) = 1 \/ s[2] = Sep)
         THEN DropDots(SubSeq(s, 3, Len(s)), TRUE)
         ELSE <<Head(s)>> \o DropDots(Tail(s), Head(s) = Sep)

PathOf(s) == DropDots(s, TRUE)

\* str.replace(os.path.sep, '_')
ReplaceSep(s) == [i \in 1..Len(s) |-> IF s[i] = Sep THEN "_" ELSE s[i]]

\* Path.with_suffix(suffix): replaces the suffix of the last component, or adds one.
WithSuffix(s, suffix) ==
    IF Len(s) > 1 /\ s[Len(s)] \in Suffixes /\ s[Len(s) - 1] # Sep
    THEN SubSeq(s, 1, Len(s) - 1) \o <<suffix>>
    ELSE s \o <<suffix>>

\* The lock path a Profiler with this result_path uses: made from the path as
\* spelled, before the suffix of the record file is set.
LockPathBySpelling(result_path) ==
    <<"/", "tmp", "/">> \o ReplaceSep(PathOf(result_path)) \o <<".profiler_lock">>

LockPath(result_path) == LockPathBySpelling(result_path)

\* The record file a Profiler with this result_path appends to.
RecordFile(result_path) == WithSuffix(PathOf(result_path), ".csv")

AllSpellings == PathSpellings \cup {DefaultResultPath, OtherResultPath}
LockPaths   == { LockPath(s) : s \in AllSpellings }
RecordFiles == { RecordFile(s) : s \in AllSpellings }

\* ------------------------------------------------------------ construction
DefaultTimeout == 10

\* __init__ that keeps the timeout it is given, negative or not.
NewProfilerNoClamp(id_, timeout, ignore_timeout, verbose, log_fails, result_path, autonaming) ==
    [ alive          |-> TRUE,
      result_path    |-> PathOf(result_path),
      lock_path      |-> LockPath(result_path),
      timeout        |-> timeout,
      id             |-> id_,
      given_id       |-> id_,
      verbose        |-> verbose,
      ignore_timeout |-> ignore_timeout,
      log_fails      |-> log_fails,
      autonaming     |-> autonaming,
      started        |-> FALSE,
      reference_time |-> 0,
      is_paused      |-> FALSE,
      paused_time    |-> 0,
      pause_reference |-> 0,
      finished       |-> FALSE ]

\* Profiler.__init__
NewProfiler(id_, timeout, ignore_timeout, verbose, log_fails, result_path, autonaming) ==
    [ alive          |-> TRUE,
      result_path    |-> PathOf(result_path),
      lock_path      |-> LockPath(result_path),
      timeout        |-> IF timeout > 0 THEN timeout ELSE 0,
      id             |-> id_,
      given_id       |-> id_,      \* the id_ argument, kept for reference
      verbose        |-> verbose,
      ignore_timeout |-> ignore_timeout,
      log_fails      |-> log_fails,
      autonaming     |-> autonaming,
      started        |-> FALSE,
      reference_time |-> 0,
      is_paused      |-> FALSE,
      paused_time    |-> 0,
      pause_reference |-> 0,
      finished       |-> FALSE ]

\* Profiler(id_): every other argument at its default (log_function=print does not fail).
DefaultProfiler(id_) ==
    NewProfiler(id_, DefaultTimeout, TRUE, FALSE, FALSE, DefaultResultPath, TRUE)

\* A slot that holds no Profiler object.
NoProfiler == [ DefaultProfiler(None) EXCEPT !.alive = FALSE ]

\* __reset_attributes that leaves paused_time as it is.
ResetAttributesKeepPaused(t) ==
    [ t EXCEPT !.started = FALSE, !.reference_time = 0, !.is_paused = FALSE,
               !.pause_reference = 0 ]

\* Profiler.__reset_attributes
ResetAttributes(t) ==
    [ t EXCEPT !.started = FALSE, !.reference_time = 0, !.is_paused = FALSE,
               !.paused_time = 0, !.pause_reference = 0 ]

\* ------------------------------------------------------------------- state
VARIABLES
    timer,    \* timer[p][s]: the attributes of the Profiler object in slot s of process p
    now,      \* now[p]: the value time.time() returns in process p
    call,     \* call[p]: where process p is in a with block, a wrapper() or an __exit__
    res,      \* res[p]: the last finished call of process p and what its caller observed
    files,    \* files[path]: the rows of the record file at path
    locks,    \* locks[path]: the process holding the file lock at path, 0 when free
    env,      \* env[p]: what the surroundings of process p do (fixed by Init)
    budget,   \* budget[p]: measurement cycles process p may still begin
    wraps,    \* wraps[p]: the callables process p has wrapped with its Profiler
    ghost     \* ghost[p]: the pause accounting of process p's measurement, kept by the book

vars == <<timer, now, call, res, files, locks, env, budget, wraps, ghost>>

Idle == [ pc |-> "idle", slot |-> "main", mode |-> None, exc |-> None, f |-> None,
          fout |-> None, fruns |-> 0, measured |-> 0, broken |-> FALSE, waited |-> 0,
          header |-> FALSE ]

\* err is the error the caller of the operation observes, exit_err the one
\* __exit__ itself raised, name_failed whether a psutil name lookup failed.
NoResult == [ op |-> None, slot |-> "main", mode |-> None, err |-> NoError,
              exit_err |-> NoError, val |-> None,
              exc |-> None, f |-> None, fout |-> None, fruns |-> 0,
              measured |-> 0, rows |-> 0, acquired |-> FALSE, at |-> 0,
              name_failed |-> FALSE ]

\* The measurement as the caller sees it: whether one is open, when it began,
\* whether it is paused and since when, the paused time so far, whether the
\* last pause() or resume() found nothing to do, whether end() found a pause
\* open, whether an end() of it failed, and how far it has followed the
\* scenario begin at 0, pause at 1, resume at 3, end at 4.
NoGhost == [ running |-> FALSE, begun |-> 0, paused |-> FALSE, pstart |-> 0, total |-> 0,
             noop |-> FALSE, open_at_end |-> FALSE, end_failed |-> FALSE, scen |-> 0 ]

GhostBegin(g, clk) ==
    IF g.running THEN [g EXCEPT !.scen = 0, !.noop = FALSE]
    ELSE [NoGhost EXCEPT !.running = TRUE, !.begun = clk, !.scen = IF clk = 0 THEN 1 ELSE 0]

GhostPause(g, clk) ==
    IF g.running /\ ~g.paused
    THEN [g EXCEPT !.paused = TRUE, !.pstart = clk, !.noop = FALSE,
                   !.scen = IF g.scen = 1 /\ clk = 1 THEN 2 ELSE 0]
    ELSE [g EXCEPT !.scen = 0, !.noop = g.running]

GhostResume(g, clk) ==
    IF g.running /\ g.paused
    THEN [g EXCEPT !.paused = FALSE, !.total = @ + (clk - g.pstart), !.noop = FALSE,
                   !.scen = IF g.scen = 2 /\ clk = 3 THEN 3 ELSE 0]
    ELSE [g EXCEPT !.scen = 0, !.noop = g.running]

\* end() is called: a pause still open is counted up to now.
GhostEnd(g, clk) ==
    IF g.running
    THEN [g EXCEPT !.paused = FALSE, !.total = IF g.paused THEN @ + (clk - g.pstart) ELSE @,
                   !.open_at_end = g.paused, !.noop = FALSE,
                   !.scen = IF g.scen = 3 /\ clk = 4 THEN 4 ELSE 0]
    ELSE [g EXCEPT !.scen = 0, !.noop = FALSE]

\* The end() under way ends: the measurement is over unless end() failed.
GhostEnded(g, failed) ==
    IF failed THEN [g EXCEPT !.end_failed = g.running, !.scen = 0]
    ELSE [g EXCEPT !.running = FALSE]

\* ----------------------------------------------------------------- methods
\* Each method is a function of the object's attributes and the clock; it
\* returns the new attributes and the error it raises (NoError when none).
Outcome(t, err) == [ t |-> t, err |-> err ]

\* __check_started without its test.
CheckStartedNever(t, msg) == NoError

\* Profiler.__check_started
CheckStarted(t, msg) == IF t.started THEN ProfileError(msg) ELSE NoError

\* Profiler.__check_not_started
CheckNotStarted(t, msg) == IF ~t.started THEN ProfileError(msg) ELSE NoError

\* Profiler.__enter__
Enter(t, clk) ==
    IF CheckStarted(t, AlreadyStartedMsg) # NoError
    THEN Outcome(t, CheckStarted(t, AlreadyStartedMsg))
    ELSE Outcome([t EXCEPT !.started = TRUE, !.finished = FALSE, !.reference_time = clk],
                 NoError)

\* pause without the test of is_paused: every call moves the pause reference.
PauseOfAlways(t, clk) ==
    LET t1 == [t EXCEPT !.pause_reference = clk]
    IN  IF ~t1.started THEN Outcome(t1, ProfileError(PauseNotStartedMsg))
        ELSE Outcome([t1 EXCEPT !.is_paused = TRUE], NoError)

\* pause that does not record the pause reference.
PauseOfNoReference(t, clk) ==
    IF ~t.is_paused
    THEN IF ~t.started THEN Outcome(t, ProfileError(PauseNotStartedMsg))
         ELSE Outcome([t EXCEPT !.is_paused = TRUE], NoError)
    ELSE Outcome(t, NoError)

\* Profiler.pause
PauseOf(t, clk) ==
    IF ~t.is_paused
    THEN LET t1 == [t EXCEPT !.pause_reference = clk]
         IN  IF CheckNotStarted(t1, PauseNotStartedMsg) # NoError
             THEN Outcome(t1, CheckNotStarted(t1, PauseNotStartedMsg))
             ELSE Outcome([t1 EXCEPT !.is_paused = TRUE], NoError)
    ELSE Outcome(t, NoError)

\* resume without the test of is_paused: every call adds to paused_time.
ResumeOfAlways(t, clk) ==
    IF ~t.started THEN Outcome(t, ProfileError(ResumeNotStartedMsg))
    ELSE Outcome([t EXCEPT !.paused_time = t.paused_time + (clk - t.pause_reference),
                           !.is_paused = FALSE], NoError)

\* Profiler.resume
ResumeOf(t, clk) ==
    IF CheckNotStarted(t, ResumeNotStartedMsg) # NoError
    THEN Outcome(t, CheckNotStarted(t, ResumeNotStartedMsg))
    ELSE IF t.is_paused
         THEN Outcome([t EXCEPT !.paused_time = t.paused_time + (clk - t.pause_reference),
                                !.is_paused = FALSE], NoError)
         ELSE Outcome(t, NoError)

\* inspect.stack()[1].function seen from __exit__: the function that called __exit__.
CallerFunction(mode) ==
    CASE mode = "with" -> "caller"
      [] mode = "stop" -> "stop"
      [] mode = "del"  -> "__del__"
      [] mode = "wrap" -> "wrapper"

\* __exit__ up to the creation of the FileLock: the attributes after it, the
\* error it raises, and measured_time and broken.
ExitHead(t, clk, exc, mode, name_fails, log_fails) ==
    IF CheckNotStarted(t, NotStartedMsg) # NoError
    THEN [ t |-> t, err |-> CheckNotStarted(t, NotStartedMsg), measured |-> 0, broken |-> FALSE ]
    ELSE LET t1 == IF t.is_paused THEN ResumeOf(t, clk).t ELSE t
             measured_time == clk - t1.reference_time - t1.paused_time
             broken == exc # None
             t2 == IF t1.id = None /\ t1.autonaming
                   THEN [t1 EXCEPT !.id = CallerFunction(mode)] ELSE t1
             err == IF name_fails THEN Raised("psutil.Error", "name lookup")
                    ELSE IF t2.verbose /\ log_fails THEN ProfileError(LogFailureMsg)
                    ELSE NoError
         IN  [ t |-> t2, err |-> err, measured |-> measured_time, broken |-> broken ]

\* The part of __exit__ after the lock is released: reset, finished, return False.
ExitTail(t) == [ ResetAttributes(t) EXCEPT !.finished = TRUE ]

\* ------------------------------------------------------------ the csv file
\* csv.writer writes None as the empty string.
CsvCell(v) == IF v = None THEN "" ELSE v

\* traceback.format_exc(): formats the exception being handled; without one
\* it returns "NoneType: None".
FormatExc(handled) == IF handled = None THEN "NoneType: None" ELSE "Traceback: " \o handled

\* type(exc) of a region error
ExcType(exc) == IF exc = None THEN None ELSE "Exception"

HeaderRow == [ kind |-> "header" ]

\* The row __exit__ writes. handled is the exception sys.exc_info() holds.
DataRow(t, measured_time, pid, broken, exc, handled) ==
    [ kind |-> "data", id |-> CsvCell(t.id), time |-> measured_time, pid |-> pid,
      ppid |-> 0, process_name |-> "python", parent_process_name |-> "sh",
      broken |-> broken, error_type |-> CsvCell(ExcType(exc)),
      error_value |-> CsvCell(exc), traceback |-> CsvCell(FormatExc(handled)) ]

\* A release that frees the lock whoever holds it.
ReleaseAny(l, path, p) == [l EXCEPT ![path] = 0]

\* FileLock.release(): releases only a lock this FileLock object holds.
Release(l, path, p) == IF l[path] = p THEN [l EXCEPT ![path] = 0] ELSE l

\* ----------------------------------------------------------------- actions
Main(p) == timer[p]["main"]
Cur(p)  == timer[p][call[p].slot]

\* What the surroundings may do at a call: fail or not.
Choices(may_fail) == IF may_fail THEN BOOLEAN ELSE {FALSE}

\* A call that is not an __exit__ finishes: the caller observes err.
Done(p, op, err) ==
    res' = [res EXCEPT ![p] = [NoResult EXCEPT !.op = op, !.err = err]]

\* What the caller of an __exit__ that ran in this mode observes, when __exit__
\* raised err (NoError: it returned False) and was handed the region error exc:
\* an error raised inside __del__ is dropped by the interpreter, an error raised
\* by __exit__ replaces the region error, and False lets the region error go on.
Observed(mode, exc, err) ==
    IF mode = "del" THEN NoError
    ELSE IF err # NoError THEN err
    ELSE IF exc # None THEN Raised("Exception", exc)
    ELSE NoError

\* An __exit__ finishes, leaving the attributes t, raising err, having written
\* rows rows. The with block or the wrapper() it ends finishes with it.
Finish(p, t, err, rows, acquired) ==
    LET c == call[p]
        obs == Observed(c.mode, c.exc, err)
    IN  /\ timer' = [timer EXCEPT ![p][c.slot] = IF c.mode = "del" THEN NoProfiler ELSE t]
        /\ call' = [call EXCEPT ![p] = Idle]
        /\ res' = [res EXCEPT ![p] =
                     [ op |-> "end", slot |-> c.slot, mode |-> c.mode, err |-> obs,
                       exit_err |-> err,
                       val |-> IF c.mode = "wrap" /\ obs = NoError THEN c.fout ELSE None,
                       exc |-> c.exc, f |-> c.f, fout |-> c.fout, fruns |-> c.fruns,
                       measured |-> c.measured, rows |-> rows, acquired |-> acquired,
                       at |-> now[p], name_failed |-> FALSE ]]
        /\ ghost' = [ghost EXCEPT ![p] =
                     IF c.slot # "main" THEN @
                     ELSE IF c.mode = "del" THEN NoGhost
                     ELSE GhostEnded(@, err # NoError)]
        /\ wraps' = [wraps EXCEPT ![p] = IF c.mode = "del" /\ c.slot = "main" THEN {} ELSE @]

\* __exit__(exc_type, exc_value, exc_traceback) is called on the Profiler in
\* slot of process p: lines 122-147.
BeginExit(p, slot, mode, exc, c) ==
    \E name_fails \in Choices(env[p].name_fails), log_fails \in Choices(timer[p][slot].log_fails) :
        LET h == ExitHead(timer[p][slot], now[p], exc, mode, name_fails, log_fails)
            c1 == [c EXCEPT !.slot = slot, !.mode = mode, !.exc = exc,
                            !.measured = h.measured, !.broken = h.broken, !.waited = 0]
        IN  IF h.err = NoError
            THEN /\ timer' = [timer EXCEPT ![p][slot] = h.t]
                 /\ call' = [call EXCEPT ![p] = [c1 EXCEPT !.pc = "acquire"]]
                 /\ ghost' = [ghost EXCEPT ![p] = IF slot = "main" THEN GhostEnd(@, now[p]) ELSE @]
                 /\ UNCHANGED <<res, wraps>>
            ELSE LET obs == Observed(mode, exc, h.err)
                 IN /\ timer' = [timer EXCEPT ![p][slot] = IF mode = "del" THEN NoProfiler ELSE h.t]
                    /\ call' = [call EXCEPT ![p] = Idle]
                    /\ res' = [res EXCEPT ![p] =
                                 [ op |-> "end", slot |-> slot, mode |-> mode, err |-> obs,
                                   exit_err |-> h.err,
                                   val |-> None, exc |-> exc, f |-> c.f, fout |-> c.fout,
                                   fruns |-> c.fruns, measured |-> h.measured, rows |-> 0,
                                   acquired |-> FALSE, at |-> now[p],
                                   name_failed |-> name_fails /\ timer[p][slot].started ]]
                    /\ ghost' = [ghost EXCEPT ![p] =
                                 IF slot # "main" THEN @
                                 ELSE IF mode = "del" THEN NoGhost
                                 ELSE GhostEnded(GhostEnd(@, now[p]), TRUE)]
                    /\ wraps' = [wraps EXCEPT ![p] = IF mode = "del" /\ slot = "main" THEN {} ELSE @]

\* __enter__ on the process's Profiler; begins a with block when scoped.
BeginWith(p, scoped) ==
    LET o == Enter(Main(p), now[p])
    IN  /\ timer' = [timer EXCEPT ![p]["main"] = o.t]
        /\ Done(p, "begin", o.err)
        /\ ghost' = [ghost EXCEPT ![p] = GhostBegin(@, now[p])]
        /\ IF o.err = NoError
           THEN /\ budget' = [budget EXCEPT ![p] = @ - 1]
                /\ call' = [call EXCEPT ![p] =
                              IF scoped THEN [Idle EXCEPT !.pc = "region", !.mode = "with"] ELSE @]
           ELSE UNCHANGED <<budget, call>>

\* with profiler: ...   (entering the block)
WithEnter(p) ==
    /\ Main(p).alive
    /\ \/ call[p].pc = "idle" /\ (Main(p).started \/ budget[p] > 0)
       \/ call[p].pc = "region" /\ call[p].mode = "with" /\ Main(p).started
    /\ BeginWith(p, call[p].pc = "idle")
    /\ UNCHANGED <<now, files, locks, env, wraps>>

\* Profiler.start
Start(p) ==
    /\ Main(p).alive
    /\ \/ call[p].pc = "idle" /\ (Main(p).started \/ budget[p] > 0)
       \/ call[p].pc = "region" /\ call[p].mode = "with" /\ Main(p).started
    /\ \E log_fails \in Choices(Main(p).log_fails) :
          IF Main(p).verbose /\ log_fails
          THEN /\ Done(p, "begin", Raised("LogError", "log function"))
               /\ UNCHANGED <<timer, budget, ghost, call>>
          ELSE BeginWith(p, FALSE)
    /\ UNCHANGED <<now, files, locks, env, wraps>>

InRegionOrIdle(p) ==
    \/ call[p].pc = "idle"
    \/ call[p].pc = "region" /\ call[p].mode = "with"

\* Profiler.pause
Pause(p) ==
    /\ Main(p).alive /\ InRegionOrIdle(p)
    /\ LET o == PauseOf(Main(p), now[p])
       IN  /\ timer' = [timer EXCEPT ![p]["main"] = o.t]
           /\ Done(p, "pause", o.err)
    /\ ghost' = [ghost EXCEPT ![p] = GhostPause(@, now[p])]
    /\ UNCHANGED <<now, call, files, locks, env, budget, wraps>>

\* Profiler.resume
Resume(p) ==
    /\ Main(p).alive /\ InRegionOrIdle(p)
    /\ LET o == ResumeOf(Main(p), now[p])
       IN  /\ timer' = [timer EXCEPT ![p]["main"] = o.t]
           /\ Done(p, "resume", o.err)
    /\ ghost' = [ghost EXCEPT ![p] = GhostResume(@, now[p])]
    /\ UNCHANGED <<now, call, files, locks, env, budget, wraps>>

\* Profiler.stop
Stop(p) ==
    /\ Main(p).alive /\ call[p].pc = "idle"
    /\ BeginExit(p, "main", "stop", None, Idle)
    /\ UNCHANGED <<now, files, locks, env, budget>>

\* The with block ends, normally (exc = None) or with the error exc.
WithExit(p, exc) ==
    /\ call[p].pc = "region" /\ call[p].mode = "with"
    /\ BeginExit(p, "main", "with", exc, call[p])
    /\ UNCHANGED <<now, files, locks, env, budget>>

\* __del__ without the implicit __exit__: the object is just dropped.
DelNoExit(p, slot) ==
    /\ timer[p][slot].alive /\ call[p].pc = "idle"
    /\ timer' = [timer EXCEPT ![p][slot] = NoProfiler]
    /\ Done(p, "del", NoError)
    /\ wraps' = [wraps EXCEPT ![p] = IF slot = "main" THEN {} ELSE @]
    /\ ghost' = [ghost EXCEPT ![p] = IF slot = "main" THEN NoGhost ELSE @]
    /\ UNCHANGED <<call, now, files, locks, env, budget>>

\* Profiler.__del__: the object in slot is discarded.
Del(p, slot) ==
    /\ timer[p][slot].alive /\ call[p].pc = "idle"
    /\ IF ~timer[p][slot].finished
       THEN BeginExit(p, slot, "del", None, Idle)
       ELSE /\ timer' = [timer EXCEPT ![p][slot] = NoProfiler]
            /\ Done(p, "del", NoError)
            /\ wraps' = [wraps EXCEPT ![p] = IF slot = "main" THEN {} ELSE @]
            /\ ghost' = [ghost EXCEPT ![p] = IF slot = "main" THEN NoGhost ELSE @]
            /\ UNCHANGED call
    /\ UNCHANGED <<now, files, locks, env, budget>>

\* f.__qualname__ and the value f returns.
QualName(f) == f
ReturnValue(f) == "value of " \o f

\* Profiler.__call__: the Profiler is applied to f and returns wrapper.
Wrap(p, f) ==
    /\ Main(p).alive /\ call[p].pc = "idle"
    /\ f \notin wraps[p]
    /\ timer' = [timer EXCEPT ![p]["main"].id =
                    IF Main(p).id = None /\ Main(p).autonaming THEN QualName(f) ELSE @]
    /\ wraps' = [wraps EXCEPT ![p] = @ \cup {f}]
    /\ Done(p, "wrap", NoError)
    /\ UNCHANGED <<now, call, files, locks, env, budget, ghost>>

\* wrapper() that measures with the wrapping Profiler itself instead of a new one.
InvokeBeginShared(p, f) ==
    /\ Main(p).alive /\ call[p].pc = "idle"
    /\ f \in wraps[p]
    /\ budget[p] > 0
    /\ timer' = [timer EXCEPT ![p]["main"] = Enter(Main(p), now[p]).t]
    /\ call' = [call EXCEPT ![p] = [Idle EXCEPT !.pc = "region", !.mode = "wrap",
                                                 !.slot = "main", !.f = f]]
    /\ budget' = [budget EXCEPT ![p] = @ - 1]
    /\ UNCHANGED <<now, res, files, locks, env, wraps, ghost>>

\* wrapper(*args, **kwargs) is called: Profiler(self.__id) is built and entered.
InvokeBegin(p, f) ==
    /\ Main(p).alive /\ call[p].pc = "idle"
    /\ f \in wraps[p]
    /\ ~timer[p]["inv"].alive
    /\ budget[p] > 0
    /\ timer' = [timer EXCEPT ![p]["inv"] = Enter(DefaultProfiler(Main(p).id), now[p]).t]
    /\ call' = [call EXCEPT ![p] = [Idle EXCEPT !.pc = "region", !.mode = "wrap",
                                                 !.slot = "inv", !.f = f]]
    /\ budget' = [budget EXCEPT ![p] = @ - 1]
    /\ UNCHANGED <<now, res, files, locks, env, wraps, ghost>>

\* f(*args, **kwargs) runs inside wrapper's with block and returns or raises
\* exc; the with block ends.
FRun(p, exc) ==
    /\ call[p].pc = "region" /\ call[p].mode = "wrap"
    /\ BeginExit(p, call[p].slot, "wrap", exc,
                 [call[p] EXCEPT !.fruns = @ + 1,
                                 !.fout = IF exc = None THEN ReturnValue(call[p].f) ELSE None])
    /\ UNCHANGED <<now, files, locks, env, budget>>

\* lock.acquire() gets the lock.
Acquire(p) ==
    /\ call[p].pc = "acquire"
    /\ locks[Cur(p).lock_path] = 0
    /\ locks' = [locks EXCEPT ![Cur(p).lock_path] = p]
    /\ call' = [call EXCEPT ![p].pc = "open"]
    /\ UNCHANGED <<timer, now, res, files, env, budget, wraps, ghost>>

\* lock.acquire() finds the lock taken and polls again. FileLock waits without
\* end when its timeout is negative.
Wait(p) ==
    /\ call[p].pc = "acquire"
    /\ locks[Cur(p).lock_path] # 0
    /\ Cur(p).timeout < 0 \/ call[p].waited < Cur(p).timeout
    /\ call' = [call EXCEPT ![p].waited = IF Cur(p).timeout < 0 THEN @ ELSE @ + 1]
    /\ UNCHANGED <<timer, now, res, files, locks, env, budget, wraps, ghost>>

\* The except Timeout branch without its test of ignore_timeout: it always raises.
TimedOutAlwaysFails(p) ==
    /\ call[p].pc = "acquire"
    /\ locks[Cur(p).lock_path] # 0
    /\ Cur(p).timeout >= 0 /\ call[p].waited >= Cur(p).timeout
    /\ locks' = Release(locks, Cur(p).lock_path, p)
    /\ Finish(p, Cur(p), ProfileError(SinkTimeoutMsg), 0, FALSE)
    /\ UNCHANGED <<now, files, env, budget>>

\* lock.acquire() raises Timeout: the except Timeout branch, then the finally.
TimedOut(p) ==
    /\ call[p].pc = "acquire"
    /\ locks[Cur(p).lock_path] # 0
    /\ Cur(p).timeout >= 0 /\ call[p].waited >= Cur(p).timeout
    /\ locks' = Release(locks, Cur(p).lock_path, p)
    /\ \E log_fails \in Choices(Cur(p).log_fails) :
          IF ~Cur(p).ignore_timeout
          THEN Finish(p, Cur(p), ProfileError(SinkTimeoutMsg), 0, FALSE)
          ELSE IF Cur(p).verbose /\ log_fails
               THEN Finish(p, Cur(p), ProfileError(LogFailureTimeoutMsg), 0, FALSE)
               ELSE Finish(p, ExitTail(Cur(p)), NoError, 0, FALSE)
    /\ UNCHANGED <<now, files, env, budget>>

\* open(record file, 'a+') and the test whether the file is empty.
Open(p) ==
    /\ call[p].pc = "open"
    /\ \E io_fails \in Choices(env[p].io_fails) :
          IF io_fails
          THEN /\ locks' = Release(locks, Cur(p).lock_path, p)
               /\ Finish(p, Cur(p), Raised("OSError", "open"), 0, TRUE)
          ELSE /\ call' = [call EXCEPT ![p].pc =
                              IF files[RecordFile(Cur(p).result_path)] = <<>>
                              THEN "header" ELSE "row"]
               /\ UNCHANGED <<timer, res, locks, wraps, ghost>>
    /\ UNCHANGED <<now, files, env, budget>>

\* writer.writerow(self.__header)
WriteHeader(p) ==
    /\ call[p].pc = "header"
    /\ files' = [files EXCEPT ![RecordFile(Cur(p).result_path)] = Append(@, HeaderRow)]
    /\ call' = [call EXCEPT ![p].pc = "row"]
    /\ UNCHANGED <<timer, now, res, locks, env, budget, wraps, ghost>>

\* The exception sys.exc_info() holds while __exit__ runs.
Handled(p) == IF call[p].exc # None THEN call[p].exc ELSE env[p].ambient

\* writer.writerow([...]), the file is closed, the lock released, and __exit__
\* resets the attributes and returns False.
WriteRow(p) ==
    /\ call[p].pc = "row"
    /\ locks' = Release(locks, Cur(p).lock_path, p)
    /\ \E io_fails \in Choices(env[p].io_fails) :
          IF io_fails
          THEN /\ Finish(p, Cur(p), Raised("OSError", "write"), 0, TRUE)
               /\ UNCHANGED files
          ELSE /\ files' = [files EXCEPT ![RecordFile(Cur(p).result_path)] =
                              Append(@, DataRow(Cur(p), call[p].measured, p, call[p].broken,
                                                call[p].exc, Handled(p)))]
               /\ Finish(p, ExitTail(Cur(p)), NoError, 1, TRUE)
    /\ UNCHANGED <<now, env, budget>>

\* time passes in process p
Tick(p) ==
    /\ call[p].pc \in {"idle", "region"}
    /\ now[p] < env[p].maxclock
    /\ now' = [now EXCEPT ![p] = @ + 1]
    /\ UNCHANGED <<timer, call, res, files, locks, env, budget, wraps, ghost>>

\* ----------------------------------------------------------- specifications
\* The state after construction: process p holds the Profiler conf[p] (or
\* none) in surroundings world[p] and may begin cycles[p] measurements.
InitWith(conf, world, cycles) ==
    /\ timer = [p \in Procs |-> [s \in Slots |-> IF s = "main" THEN conf[p] ELSE NoProfiler]]
    /\ now = [p \in Procs |-> 0]
    /\ call = [p \in Procs |-> Idle]
    /\ res = [p \in Procs |-> NoResult]
    /\ files = [f \in RecordFiles |-> <<>>]
    /\ locks = [l \in LockPaths |-> 0]
    /\ env = world
    /\ budget = cycles
    /\ wraps = [p \in Procs |-> {}]
    /\ ghost = [p \in Procs |-> NoGhost]

\* Surroundings in which nothing fails and no exception is being handled.
Calm(maxclock) ==
    [ ambient |-> None, name_fails |-> FALSE, io_fails |-> FALSE, maxclock |-> maxclock ]

\* The steps of an __exit__ under way.
ExitStep(p) ==
    \/ Acquire(p)
    \/ Wait(p)
    \/ TimedOut(p)
    \/ Open(p)
    \/ WriteHeader(p)
    \/ WriteRow(p)

\* A contending process: it measures once with a named Profiler, by start()
\* and stop().
Contender == NewProfiler("y", 0, TRUE, FALSE, FALSE, DefaultResultPath, TRUE)

\* Process 1 holds the Profiler c and may begin MaxCycles measurements,
\* process 2 contends for the lock, and any further process has no Profiler.
OneAndContender(c, world) ==
    InitWith([p \in Procs |-> IF p = 1 THEN c ELSE IF p = 2 THEN Contender ELSE NoProfiler],
             [p \in Procs |-> IF p = 1 THEN world ELSE Calm(0)],
             [p \in Procs |-> IF p = 1 THEN MaxCycles ELSE IF p = 2 THEN 1 ELSE 0])

\* --- N processes append to one record file, each once.
SinkConfs ==
    { NewProfiler("x", timeout, TRUE, FALSE, FALSE, path, TRUE) :
        timeout \in {0, 1}, path \in PathSpellings }

InitSink ==
    \E conf \in [Procs -> SinkConfs] :
        InitWith(conf, [p \in Procs |-> Calm(0)], [p \in Procs |-> 1])

NextSink ==
    \E p \in Procs :
        \/ Start(p)
        \/ Stop(p)
        \/ ExitStep(p)

SpecSink == InitSink /\ [][NextSink]_vars

\* --- One process drives the lifecycle of its Profiler while the clock runs.
InitTimer ==
    InitWith([p \in Procs |-> IF p = 1 THEN NewProfiler("x", 1, TRUE, FALSE, FALSE, DefaultResultPath, TRUE)
                              ELSE NoProfiler],
             [p \in Procs |-> IF p = 1 THEN Calm(MaxClock) ELSE Calm(0)],
             [p \in Procs |-> IF p = 1 THEN MaxCycles ELSE 0])

NextTimer ==
    \E p \in Procs :
        \/ WithEnter(p)
        \/ Start(p)
        \/ Pause(p)
        \/ Resume(p)
        \/ Stop(p)
        \/ \E exc \in {None} \cup Errors : WithExit(p, exc)
        \/ Tick(p)
        \/ Acquire(p)
        \/ Open(p)
        \/ WriteHeader(p)
        \/ WriteRow(p)

SpecTimer == InitTimer /\ [][NextTimer]_vars

\* --- One process measures with blocks that may raise, with a log function
\* that may fail, possibly while an exception is being handled; the other
\* processes contend for the lock.
ErrConfs ==
    { NewProfiler("x", 1, ignore_timeout, verbose, verbose, DefaultResultPath, TRUE) :
        ignore_timeout \in BOOLEAN, verbose \in BOOLEAN }

InitErr ==
    \E c \in ErrConfs, ambient \in {None, "E0"} :
        OneAndContender(c, [Calm(0) EXCEPT !.ambient = ambient])

NextErr ==
    \/ WithEnter(1)
    \/ \E exc \in {None} \cup Errors : WithExit(1, exc)
    \/ \E p \in Procs :
          \/ Start(p)
          \/ Stop(p)
          \/ ExitStep(p)

SpecErr == InitErr /\ [][NextErr]_vars

\* --- One process wraps callables with its Profiler and calls them; the other
\* processes contend for the lock.
WrapConfs ==
    { NewProfiler(id_, 0, TRUE, FALSE, FALSE, DefaultResultPath, autonaming) :
        id_ \in {None, "x"}, autonaming \in BOOLEAN }

InitWrap ==
    \E c \in WrapConfs :
        OneAndContender(c, Calm(0))

NextWrap ==
    \/ \E f \in Funcs : Wrap(1, f)
    \/ \E f \in Funcs : InvokeBegin(1, f)
    \/ \E exc \in {None} \cup Errors : FRun(1, exc)
    \/ \E slot \in Slots : Del(1, slot)
    \/ \E p \in Procs :
          \/ Start(p)
          \/ Stop(p)
          \/ ExitStep(p)

SpecWrap == InitWrap /\ [][NextWrap]_vars

\* --- One process measures with an unnamed Profiler; name lookups, file
\* operations and the log function may fail, and the Profiler may be
\* discarded; the other processes contend for the lock.
FailConfs ==
    { NewProfiler(None, 1, ignore_timeout, verbose, verbose, DefaultResultPath, TRUE) :
        ignore_timeout \in BOOLEAN, verbose \in BOOLEAN }

InitFail ==
    \E c \in FailConfs, name_fails \in BOOLEAN, io_fails \in BOOLEAN :
        OneAndContender(c, [ ambient |-> None, name_fails |-> name_fails,
                             io_fails |-> io_fails, maxclock |-> 0 ])

NextFail ==
    \/ WithEnter(1)
    \/ \E exc \in {None} \cup Errors : WithExit(1, exc)
    \/ Del(1, "main")
    \/ \E p \in Procs :
          \/ Start(p)
          \/ Stop(p)
          \/ ExitStep(p)

SpecFail == InitFail /\ [][NextFail]_vars

\* --- One process uses one unnamed Profiler for several measurement cycles, by
\* with blocks and by start() and stop(), while the clock runs, and may
\* discard it.
ReuseCycles == MaxCycles + 1
ReuseClock == MaxClock - 1

InitReuse ==
    InitWith([p \in Procs |-> IF p = 1 THEN NewProfiler(None, 1, TRUE, FALSE, FALSE, DefaultResultPath, TRUE)
                              ELSE NoProfiler],
             [p \in Procs |-> IF p = 1 THEN Calm(ReuseClock) ELSE Calm(0)],
             [p \in Procs |-> IF p = 1 THEN ReuseCycles ELSE 0])

NextReuse ==
    \E p \in Procs :
        \/ WithEnter(p)
        \/ WithExit(p, None)
        \/ Start(p)
        \/ Pause(p)
        \/ Resume(p)
        \/ Stop(p)
        \/ Del(p, "main")
        \/ Tick(p)
        \/ Acquire(p)
        \/ Open(p)
        \/ WriteHeader(p)
        \/ WriteRow(p)

SpecReuse == InitReuse /\ [][NextReuse]_vars

\* --- N processes end a measurement each on one record file, with timeouts
\* that may be negative; a process trying to get the lock keeps polling.
LiveConfs ==
    { NewProfiler("x", timeout, ignore_timeout, FALSE, FALSE, DefaultResultPath, TRUE) :
        timeout \in {-1, 1}, ignore_timeout \in BOOLEAN }

InitLive ==
    \E c \in LiveConfs, timeout \in {-1, 1} :
        InitWith([p \in Procs |-> IF p = 1 THEN c
                                  ELSE NewProfiler("y", timeout, TRUE, FALSE, FALSE,
                                                   DefaultResultPath, TRUE)],
                 [p \in Procs |-> Calm(0)], [p \in Procs |-> 1])

\* The steps of lock.acquire() and those made while the lock is held.
LockStep(p) == Acquire(p) \/ Wait(p) \/ TimedOut(p)
SectionStep(p) == Open(p) \/ WriteHeader(p) \/ WriteRow(p)

NextLive ==
    \E p \in Procs :
        \/ Start(p)
        \/ Stop(p)
        \/ LockStep(p)
        \/ SectionStep(p)

SpecLive == InitLive /\ [][NextLive]_vars /\ \A p \in Procs : WF_vars(LockStep(p))

\* --- One process wraps callables with a Profiler built with a result_path,
\* a timeout and an ignore_timeout of its own, and calls them; the other
\* processes contend for the lock of the default result_path.
WrapperConfs ==
    { NewProfiler("x", timeout, ignore_timeout, FALSE, FALSE, result_path, TRUE) :
        timeout \in {0, 1}, ignore_timeout \in BOOLEAN,
        result_path \in {DefaultResultPath, OtherResultPath} }

InitWrapper ==
    \E c \in WrapperConfs :
        OneAndContender(c, Calm(0))

NextWrapper ==
    \/ \E f \in Funcs : Wrap(1, f)
    \/ \E f \in Funcs : InvokeBegin(1, f)
    \/ \E exc \in {None} \cup Errors : FRun(1, exc)
    \/ \E p \in Procs :
          \/ Start(p)
          \/ Stop(p)
          \/ ExitStep(p)

SpecWrapper == InitWrapper /\ [][NextWrapper]_vars

\* --- One process measures by start(), pause(), resume() and stop() while the
\* clock runs, with an end() that may fail (lock timeout, log function), and
\* may discard its Profiler; the other processes contend for the lock.
LostConfs ==
    { NewProfiler("x", 0, ignore_timeout, verbose, verbose, DefaultResultPath, TRUE) :
        ignore_timeout \in BOOLEAN, verbose \in BOOLEAN }

LostClock == MaxClock - 2

InitLost ==
    \E c \in LostConfs :
        OneAndContender(c, Calm(LostClock))

NextLost ==
    \/ Pause(1)
    \/ Resume(1)
    \/ Tick(1)
    \/ Del(1, "main")
    \/ \E p \in Procs :
          \/ Start(p)
          \/ Stop(p)
          \/ Acquire(p)
          \/ TimedOut(p)
          \/ Open(p)
          \/ WriteHeader(p)
          \/ WriteRow(p)

SpecLost == InitLost /\ [][NextLost]_vars

\* ------------------------------------------------------------------ claims
\* The data rows process p wrote to the record file at path.
RowsOf(path, p) == SelectSeq(files[path], LAMBDA r : r.kind = "data" /\ r.pid = p)

NotStartedMsgs == {NotStartedMsg, PauseNotStartedMsg, ResumeNotStartedMsg}

\* An end() that returned: __exit__ ran on the process's own Profiler, called
\* by stop() or by the end of a with block, and raised nothing.
Ended(p) ==
    /\ res[p].op = "end" /\ res[p].slot = "main"
    /\ res[p].mode \in {"stop", "with"}
    /\ res[p].exit_err = NoError

\* C3: begin() on a started Profiler raises ProfileError "already started"
\* and changes none of its attributes; end(), pause() and resume() on a
\* Profiler that is not started (never begun, or its last cycle ended) raise
\* ProfileError "not started", write nothing to any record file and leave no
\* end() under way.
C3_LifecycleGuards ==
    [][\A p \in Procs :
        /\ ((BeginWith(p, TRUE) \/ BeginWith(p, FALSE)) /\ Main(p).started)
              => /\ res'[p].err = ProfileError(AlreadyStartedMsg)
                 /\ timer'[p] = timer[p]
        /\ ((Pause(p) \/ Resume(p) \/ Stop(p) \/ \E exc \in {None} \cup Errors : WithExit(p, exc))
               /\ ~Main(p).started)
              => /\ res'[p].err.cls = "ProfileError"
                 /\ res'[p].err.msg \in NotStartedMsgs
                 /\ files' = files
                 /\ call'[p].pc \in {"idle", "region"}
                 /\ ~timer'[p]["main"].started
       ]_vars

\* C3 witness: end() was called after the cycle was completed and failed.
C3_Witness ==
    \E p \in Procs :
        /\ res[p].op = "end" /\ res[p].exit_err = ProfileError(NotStartedMsg)
        /\ Main(p).finished
        /\ Len(RowsOf(RecordFile(Main(p).result_path), p)) = 1

\* C4: the elapsed time an end() records is the time from begin to end less
\* the paused time, a pause open at end() counted up to the end; it is never
\* negative; and it is the time of the row end() wrote.
C4_Elapsed ==
    \A p \in Procs :
        (Ended(p) /\ ~ghost[p].end_failed)
           => /\ res[p].measured = (res[p].at - ghost[p].begun) - ghost[p].total
              /\ res[p].measured >= 0
              /\ res[p].rows = 1 =>
                   LET rows == RowsOf(RecordFile(Main(p).result_path), p)
                   IN  rows[Len(rows)].time = res[p].measured

\* C4 witness: an end() that found a pause open, after paused and running time.
C4_Witness ==
    \E p \in Procs :
        /\ Ended(p) /\ res[p].rows = 1
        /\ ghost[p].open_at_end
        /\ ghost[p].total > 1
        /\ res[p].measured > 0

\* C5 as stated: begin at 0, pause at 1, resume at 3, end at 4 records 3.
C5_Original ==
    \A p \in Procs : (Ended(p) /\ ghost[p].scen = 4) => res[p].measured = 3

\* C5: begin at 0, pause at 1, resume at 3, end at 4 records an elapsed time
\* of 2: the 4 between begin and end less the 2 paused.
C5_Scenario ==
    \A p \in Procs : (Ended(p) /\ ghost[p].scen = 4) => res[p].measured = 2

\* C5 witness: the scenario was run to its end and its row written.
C5_Witness ==
    \E p \in Procs : Ended(p) /\ ghost[p].scen = 4 /\ res[p].rows = 1 /\ res[p].at = 4

\* C6: on a started Profiler, resume() when not paused and pause() when paused
\* change none of its attributes, and after any resume() the Profiler is not
\* paused and its paused_time is the paused time up to the first resume()
\* after the pause.
C6_Idempotent ==
    [][\A p \in Procs :
        /\ (Resume(p) /\ Main(p).started /\ ~Main(p).is_paused) => timer'[p] = timer[p]
        /\ (Pause(p) /\ Main(p).started /\ Main(p).is_paused) => timer'[p] = timer[p]
        /\ (Resume(p) /\ Main(p).started)
              => /\ ~timer'[p]["main"].is_paused
                 /\ timer'[p]["main"].paused_time = ghost'[p].total
       ]_vars

\* C6 witness: a resume() that found the Profiler running, after a pause had
\* been closed.
C6_Witness ==
    \E p \in Procs :
        /\ res[p].op = "resume" /\ res[p].err = NoError
        /\ ghost[p].noop /\ ghost[p].total > 0
        /\ Main(p).paused_time = ghost[p].total

\* The record file of process p's Profiler, and the processes appending to a file.
FileOf(p) == RecordFile(Main(p).result_path)
Writers(path) == { p \in Procs : Main(p).alive /\ FileOf(p) = path }

\* Inside the section between lock.acquire() and lock.release().
InSection(p) == call[p].pc \in {"open", "header", "row"}

\* The end() of process p wrote its row.
Appended(p) == res[p].op = "end" /\ res[p].rows = 1

Count(rows, kind) == Len(SelectSeq(rows, LAMBDA r : r.kind = kind))

\* A header row first and n data rows after it.
HeaderThenRows(rows, n) ==
    /\ Len(rows) = n + 1
    /\ rows[1].kind = "header"
    /\ \A i \in 2..Len(rows) : rows[i].kind = "data"

\* C1 as stated: no two processes appending to one record file are inside
\* the open/header-check/write section together, and once all N processes of
\* a record file have appended their row, the file is the header row followed
\* by exactly N data rows.
C1_Original ==
    /\ \A p, q \in Procs :
          (p # q /\ Main(p).alive /\ Main(q).alive /\ FileOf(p) = FileOf(q))
             => ~(InSection(p) /\ InSection(q))
    /\ \A path \in RecordFiles :
          (Writers(path) # {} /\ \A p \in Writers(path) : Appended(p))
             => HeaderThenRows(files[path], Cardinality(Writers(path)))

\* C2 as stated: when two Profilers whose result_path name the same record
\* file, in two processes, have each appended once and nobody else has, the
\* file holds exactly one header row and two data rows.
C2_Original ==
    \A p, q \in Procs :
        (/\ p # q /\ Main(p).alive /\ Main(q).alive
         /\ FileOf(p) = FileOf(q)
         /\ Appended(p) /\ Appended(q)
         /\ \A o \in Procs \ {p, q} : RowsOf(FileOf(p), o) = <<>>)
           => /\ Count(files[FileOf(p)], "header") = 1
              /\ Count(files[FileOf(p)], "data") = 2

\* The last data row process p wrote to the record file of the Profiler that
\* ended last.
LastRow(p) ==
    LET rows == RowsOf(RecordFile(IF res[p].slot = "inv" THEN DefaultResultPath
                                  ELSE Main(p).result_path), p)
    IN  rows[Len(rows)]

Populated(cell) == cell # ""

\* C7 as stated: the row written at the end of a with block has broken true
\* exactly when the block raised, its error_type, error_value and traceback
\* cells are filled exactly when broken is true, and the caller observes the
\* block's error.
C7_Original ==
    \A p \in Procs :
        (res[p].op = "end" /\ res[p].mode = "with" /\ res[p].acquired /\ res[p].rows = 1)
           => /\ LastRow(p).broken <=> (res[p].exc # None)
              /\ Populated(LastRow(p).error_type) <=> LastRow(p).broken
              /\ Populated(LastRow(p).error_value) <=> LastRow(p).broken
              /\ Populated(LastRow(p).traceback) <=> LastRow(p).broken
              /\ res[p].exc # None => res[p].err = Raised("Exception", res[p].exc)

\* C8 as stated: when the block (or the wrapped callable) raised, the caller
\* observes that error whatever end() did.
C8_Original ==
    \A p \in Procs :
        (res[p].op = "end" /\ res[p].mode \in {"with", "wrap"} /\ res[p].exc # None)
           => res[p].err = Raised("Exception", res[p].exc)

LifeCycle(t) == <<t.started, t.finished, t.is_paused, t.paused_time>>

\* A step of a call of wrapper(): its beginning, the run of f, or a step of
\* the __exit__ of the Profiler it built.
WrapperStep(p) ==
    \/ \E f \in Funcs : InvokeBegin(p, f)
    \/ \E exc \in {None} \cup Errors : FRun(p, exc)
    \/ call[p].mode = "wrap" /\ ExitStep(p)

\* C9: every call of wrapper() runs f once, on a Profiler of its own; a call
\* whose end() got the lock wrote exactly one row, with broken false when f
\* returned and true when f raised; the call returns what f returned or raises
\* what f raised; no step of the call changes started, finished, is_paused or
\* paused_time of the wrapping Profiler; and discarding the Profiler the call
\* built, or a wrapping Profiler that is not measuring, writes no row and
\* starts no end().
C9_Wrapper ==
    [][\A p \in Procs :
        /\ (WrapperStep(p) /\ res'[p] # res[p])
              => /\ res'[p].op = "end" /\ res'[p].slot = "inv" /\ res'[p].fruns = 1
                 /\ res'[p].acquired <=> (res'[p].rows = 1)
                 /\ res'[p].rows = 1 =>
                       /\ Len(RowsOf(RecordFile(DefaultResultPath), p)')
                            = Len(RowsOf(RecordFile(DefaultResultPath), p)) + 1
                       /\ LastRow(p)'.broken <=> (res'[p].exc # None)
                 /\ res'[p].exc = None =>
                       res'[p].err = NoError /\ res'[p].val = ReturnValue(res'[p].f)
                 /\ res'[p].exc # None => res'[p].err = Raised("Exception", res'[p].exc)
        /\ WrapperStep(p)
              => /\ LifeCycle(timer'[p]["main"]) = LifeCycle(timer[p]["main"])
                 /\ \A path \in RecordFiles :
                       Len(RowsOf(path, p)') <= Len(RowsOf(path, p)) + 1
        /\ (Del(p, "inv") \/ (Del(p, "main") /\ ~Main(p).started))
              => files' = files /\ call'[p].pc = "idle"
       ]_vars

\* C9 witness: a call of wrapper() whose f raised has written its row, after
\* waiting for the lock, and raised f's error.
C9_Witness ==
    \E p \in Procs :
        /\ res[p].op = "end" /\ res[p].mode = "wrap" /\ res[p].rows = 1
        /\ res[p].exc \in Errors /\ res[p].err = Raised("Exception", res[p].exc)
        /\ LastRow(p).broken
        /\ ~timer[p]["main"].started

\* C10 as stated: a Profiler built without an id names the rows of every
\* wrapped callable by that callable's qualified name.
C10_Original ==
    \A p \in Procs :
        (res[p].op = "end" /\ res[p].mode = "wrap" /\ res[p].rows = 1
           /\ Main(p).alive /\ Main(p).given_id = None)
           => LastRow(p).id = QualName(res[p].f)

\* An end() is under way in process p: __exit__ called by stop() or by the end
\* of a with block.
EndUnderWay(p) == call[p].mode \in {"stop", "with"}

\* C11 as stated: when lock.acquire() times out in an end(), the record file
\* gains nothing; with ignore_timeout the end() returns and leaves the
\* Profiler finished and not started; without it the end() raises
\* ProfileError "timed out".
C11_Original ==
    [][\A p \in Procs :
        (TimedOut(p) /\ EndUnderWay(p))
           => /\ files' = files
              /\ Cur(p).ignore_timeout
                    => /\ res'[p].exit_err = NoError
                       /\ timer'[p]["main"].finished /\ ~timer'[p]["main"].started
              /\ ~Cur(p).ignore_timeout
                    => res'[p].exit_err = ProfileError(SinkTimeoutMsg)
       ]_vars

\* C11: when lock.acquire() times out in an end(), the record file gains
\* nothing; without ignore_timeout the end() raises ProfileError "timed out";
\* with ignore_timeout the end() returns and leaves the Profiler finished and
\* not started, unless the Profiler is verbose and its log function fails on
\* the skip message: then the end() raises ProfileError "log function after
\* a lock timeout" and the Profiler stays started and not finished.
C11_Timeout ==
    [][\A p \in Procs :
        (TimedOut(p) /\ EndUnderWay(p))
           => /\ files' = files
              /\ Cur(p).ignore_timeout
                    => \/ /\ res'[p].exit_err = NoError
                          /\ timer'[p]["main"].finished /\ ~timer'[p]["main"].started
                       \/ /\ Cur(p).verbose /\ Cur(p).log_fails
                          /\ res'[p].exit_err = ProfileError(LogFailureTimeoutMsg)
                          /\ timer'[p]["main"].started /\ ~timer'[p]["main"].finished
              /\ ~Cur(p).ignore_timeout
                    => /\ res'[p].exit_err = ProfileError(SinkTimeoutMsg)
                       /\ timer'[p]["main"].started
       ]_vars

\* C11 witness: an end() with ignore_timeout waited, timed out and returned;
\* the process has written no row and its Profiler is finished.
C11_Witness ==
    \E p \in Procs :
        /\ Ended(p) /\ ~res[p].acquired /\ res[p].rows = 0
        /\ Main(p).ignore_timeout /\ Main(p).timeout > 0
        /\ Main(p).finished /\ ~Main(p).started
        /\ RowsOf(FileOf(p), p) = <<>>

\* The ways an __exit__ that tried to acquire the lock can end.
SectionExit(p) == TimedOut(p) \/ Open(p) \/ WriteRow(p)

\* C12: a lock is held only by a process that is between lock.acquire() and
\* lock.release() of an __exit__ on the Profiler with that lock path; when an
\* __exit__ that tried to acquire the lock ends (row written, open or write
\* failed, timeout ignored or not, log function failed after the timeout) the
\* process holds no lock; and an __exit__ whose acquire timed out leaves
\* every lock with the holder it had.
C12_LockReleased ==
    [][/\ \A l \in LockPaths :
            locks'[l] # 0 => /\ call'[locks'[l]].pc \in {"open", "header", "row"}
                             /\ timer'[locks'[l]][call'[locks'[l]].slot].lock_path = l
       /\ \A p \in Procs :
            /\ (SectionExit(p) /\ call'[p].pc = "idle")
                  => \A l \in LockPaths : locks'[l] # p
            /\ TimedOut(p) => locks' = locks
      ]_vars

\* C12 witness: an end() that got the lock failed to write its row, and the
\* lock of its Profiler is free.
C12_Witness ==
    \E p \in Procs :
        /\ res[p].op = "end" /\ res[p].acquired
        /\ res[p].exit_err = Raised("OSError", "write")
        /\ Main(p).alive /\ locks[Main(p).lock_path] = 0

\* C13: discarding a Profiler that is started and not finished runs __exit__
\* on it; that __exit__, when it got the lock and the record file can be
\* written, appends exactly one data row, of this process and with broken
\* false, to the Profiler's record file; discarding a Profiler whose last
\* cycle was ended, or that was never begun, changes no record file and
\* leaves no __exit__ under way.
C13_Discard ==
    [][\A p \in Procs :
        /\ (Del(p, "main") /\ Main(p).started /\ ~Main(p).finished)
              => \/ call'[p].pc = "acquire" /\ call'[p].mode = "del"
                 \/ res'[p].op = "end" /\ res'[p].mode = "del" /\ res'[p].exit_err # NoError
        /\ (ExitStep(p) /\ call[p].mode = "del" /\ call'[p].pc = "idle"
               /\ res'[p].acquired /\ ~env[p].io_fails)
              => LET path == RecordFile(Cur(p).result_path)
                     old == Count(files[path], "data")
                 IN  /\ res'[p].rows = 1
                     /\ Count(files'[path], "data") = old + 1
                     /\ LET row == files'[path][Len(files'[path])]
                        IN  row.kind = "data" /\ row.pid = p /\ row.broken = FALSE
        /\ (Del(p, "main") /\ (Main(p).finished \/ ~Main(p).started))
              => files' = files /\ call'[p].pc = "idle"
       ]_vars

\* C13 witness: a Profiler begun and never ended was discarded, and its
\* process has one row in the record file, with broken false.
C13_Witness ==
    \E p \in Procs :
        /\ res[p].op = "end" /\ res[p].mode = "del" /\ res[p].rows = 1
        /\ ~Main(p).alive
        /\ Len(RowsOf(RecordFile(DefaultResultPath), p)) = 1
        /\ RowsOf(RecordFile(DefaultResultPath), p)[1].broken = FALSE

\* rows is old with one more row at its end.
OneMore(old, rows) == Len(rows) = Len(old) + 1 /\ SubSeq(rows, 1, Len(old)) = old

\* C14 as stated: every step leaves each record file as it was or appends
\* one row to it: a data row, or the header row when the file was empty.
C14_Original ==
    [][\A path \in RecordFiles :
        \/ files'[path] = files[path]
        \/ /\ OneMore(files[path], files'[path])
           /\ LET row == files'[path][Len(files'[path])]
              IN  \/ row.kind = "data" /\ files[path] # <<>>
                  \/ row.kind = "header" /\ files[path] = <<>>
       ]_vars

\* C15 as stated: an end() on a started Profiler during which the lookup of
\* the process name or of the parent's name failed raised nothing, appended
\* its row with the name "unknown", and left the Profiler finished and not
\* started.
C15_Original ==
    \A p \in Procs :
        (res[p].op = "end" /\ res[p].mode \in {"stop", "with"} /\ res[p].name_failed)
           => /\ res[p].exit_err = NoError
              /\ res[p].rows = 1
              /\ RowsOf(FileOf(p), p) # <<>>
              /\ "unknown" \in {LastRow(p).process_name, LastRow(p).parent_process_name}
              /\ Main(p).finished /\ ~Main(p).started

\* The cycles process p has begun and those it has completed, in SpecReuse.
Begun(p) == ReuseCycles - budget[p]
Completed(p) == Begun(p) - (IF Main(p).started THEN 1 ELSE 0)

\* C16: after an end() that returned, the Profiler is not started, finished,
\* not paused and has paused_time 0; a begin() on a Profiler that is not
\* started succeeds and starts it; the elapsed time an end() records is the
\* time since the begin() of its own cycle less the time paused in that cycle;
\* and the process has one row in the record file for each cycle it has
\* completed.
C16_Reuse ==
    [][\A p \in Procs :
        /\ Ended(p)' =>
              /\ ~timer'[p]["main"].started /\ timer'[p]["main"].finished
              /\ ~timer'[p]["main"].is_paused /\ timer'[p]["main"].paused_time = 0
              /\ res'[p].measured = (res'[p].at - ghost'[p].begun) - ghost'[p].total
              /\ res'[p].rows = 1
              /\ RowsOf(FileOf(p), p)'[Begun(p)].time = res'[p].measured
        /\ ((BeginWith(p, TRUE) \/ BeginWith(p, FALSE)) /\ ~Main(p).started)
              => /\ res'[p].err = NoError
                 /\ timer'[p]["main"].started /\ ~timer'[p]["main"].finished
                 /\ timer'[p]["main"].reference_time = now[p]
                 /\ timer'[p]["main"].paused_time = 0 /\ ~timer'[p]["main"].is_paused
        /\ timer'[p]["main"].alive => Len(RowsOf(FileOf(p), p)') = Completed(p)'
       ]_vars

\* C16 witness: the second cycle of a Profiler has ended and written the
\* second row of its process; it began after the clock had advanced and had
\* a pause of its own.
C16_Witness ==
    \E p \in Procs :
        /\ Ended(p) /\ Begun(p) = 2 /\ res[p].rows = 1
        /\ Len(RowsOf(FileOf(p), p)) = 2
        /\ ghost[p].begun > 0 /\ ghost[p].total > 0
        /\ res[p].measured > 0

\* C17 as stated: every row written for a Profiler built without an id and
\* with autonaming carries the name of the function of the process that
\* bracketed the measurement: "caller", the function that holds the with
\* blocks, calls start() and stop() and drops the Profiler.
C17_Original ==
    \A p \in Procs :
        (Main(p).alive /\ Main(p).given_id = None /\ Main(p).autonaming)
           => \A i \in 1..Len(RowsOf(FileOf(p), p)) :
                 RowsOf(FileOf(p), p)[i].id = CallerFunction("with")

\* C18: an __exit__ that waits for the lock stops waiting, whatever the
\* process holding the lock does; and if every process that holds the lock
\* keeps taking steps, every __exit__ under way ends: with its row written,
\* with the write skipped, or with an error.
C18_Terminates ==
    /\ \A p \in Procs : (call[p].pc = "acquire") ~> (call[p].pc # "acquire")
    /\ (\A q \in Procs : WF_vars(SectionStep(q)))
          => \A p \in Procs : (call[p].pc # "idle") ~> (call[p].pc = "idle")

\* C18 witness: an end() of a Profiler built with a negative timeout found
\* the lock taken and ended without the lock, while the other process is
\* still holding it.
C18_Witness ==
    \E p, q \in Procs :
        /\ p # q /\ InSection(q)
        /\ Main(p).timeout = 0
        /\ res[p].op = "end" /\ ~res[p].acquired /\ res[p].rows = 0
        /\ res[p].exit_err \in {NoError, ProfileError(SinkTimeoutMsg)}
        /\ call[p].pc = "idle"

\* C19 as stated: a call of wrapper() waits for the lock no longer than the
\* timeout of the wrapping Profiler; the row it writes goes to the record file
\* of the wrapping Profiler's result_path and to no other file; and when its
\* lock.acquire() times out it raises ProfileError "timed out" exactly when
\* the wrapping Profiler's ignore_timeout is false.
C19_Original ==
    \A p \in Procs :
        /\ call[p].mode = "wrap" => call[p].waited <= Main(p).timeout
        /\ (res[p].op = "end" /\ res[p].mode = "wrap" /\ res[p].rows = 1)
              => /\ RowsOf(FileOf(p), p) # <<>>
                 /\ \A path \in RecordFiles \ {FileOf(p)} : RowsOf(path, p) = <<>>
        /\ (res[p].op = "end" /\ res[p].mode = "wrap" /\ ~res[p].acquired)
              => (res[p].exit_err = ProfileError(SinkTimeoutMsg) <=> ~Main(p).ignore_timeout)

\* The ProfileErrors of an end() that fails before it writes.
EndFailures ==
    { ProfileError(SinkTimeoutMsg), ProfileError(LogFailureMsg),
      ProfileError(LogFailureTimeoutMsg) }

\* The paused time of the measurement when its last end() was called: a pause
\* open at that call not counted.
PausedBefore(p) ==
    ghost[p].total - (IF ghost[p].open_at_end THEN res[p].at - ghost[p].pstart ELSE 0)

\* The cycles process p has begun, in a specification made by OneAndContender.
Begins(p) == (IF p = 1 THEN MaxCycles ELSE IF p = 2 THEN 1 ELSE 0) - budget[p]

\* C20 as stated: after an end() on a started Profiler that failed before a
\* row was written (lock timeout without ignore_timeout, log function
\* failure) the Profiler is started and not finished, its reference_time is
\* the time of its begin() and its paused_time what it was when end() was
\* called, and nothing was written; no process has more rows in the record
\* file than cycles begun; a paused Profiler is started; and no Profiler is
\* both started and finished.
C20_Original ==
    \A p \in Procs :
        /\ (res[p].op = "end" /\ res[p].mode = "stop" /\ res[p].exit_err \in EndFailures)
              => /\ Main(p).started /\ ~Main(p).finished
                 /\ Main(p).reference_time = ghost[p].begun
                 /\ Main(p).paused_time = PausedBefore(p)
                 /\ res[p].rows = 0
        /\ Len(RowsOf(RecordFile(DefaultResultPath), p)) <= Begins(p)
        /\ Main(p).is_paused => Main(p).started
        /\ ~(Main(p).started /\ Main(p).finished)
====
